---------------------------- MODULE Spec2Model ----------------------------
(* The verification queue of ethcore/verification/src/queue/mod.rs:        *)
(* VerificationQueue<K, C>, its verifier threads and its public calls.     *)
(*                                                                         *)
(* Threads are the API callers (Callers) and the verifier threads          *)
(* (Verifiers).  A step of the model is one critical section of the code:  *)
(* the statements a thread runs between taking a set of locks and giving   *)
(* them back.  A call that is several critical sections (import, clear,    *)
(* flush, the verifier loop) is several steps, with the caller's position  *)
(* in cpc / wpc.  Locks held across steps are read off the positions.      *)
EXTENDS Integers, Sequences, FiniteSets, TLC

(***************************************************************************)
(* Bounds of the model                                                     *)
(***************************************************************************)
\* hashes 1..NumHashes form one chain: the parent of h is h - 1, and 0 is a
\* block of the chain that is never imported
NumHashes == 3
\* import calls started in one behaviour
MaxImports == 2
\* clear, mark_as_good and mark_as_bad calls started in one behaviour
MaxCalls == 2
\* longest slice handed to mark_as_good / mark_as_bad
MaxBatch == 2
\* largest `max` handed to drain
MaxDrain == 2
\* ::num_cpus::get() of the host
NumCpus == 2

(***************************************************************************)
(* Constants of the program                                                *)
(***************************************************************************)
\* collect_garbage: ticks between two adjustments of the verifier count
READJUSTMENT_PERIOD == 12
\* collect_garbage: below this length of unverified one verifier is enough
MinUnverifiedForScaling == 20
\* collect_garbage: the verifier count stays while the lengths of unverified
\* and verified differ by no more than one part in ScalingTolerance
ScalingTolerance == 10
\* modulus of the AtomicUsize size counters (fetch_sub wraps around)
UsizeModulus == 64

(***************************************************************************)
(* Items                                                                   *)
(***************************************************************************)
Hashes == 1..NumHashes

\* BlockLike::parent_hash
parent_hash(h) == h - 1

\* BlockLike::difficulty
difficulty(h) == h

\* MallocSizeOf of an item
malloc_size_of(h) == h

\* BlockLike::raw_hash of an input: the hash of the bytes as received, a
\* value that is no header hash
raw_hash(h) == NumHashes + h

\* K::Input: hash and raw_hash of what the caller hands to import
Inputs == {[hash |-> h, raw |-> raw_hash(h)] : h \in Hashes}

\* the outcomes of K::create that import tells apart
CreateResults == {"Ok", "TemporarilyInvalid", "InvalidTransactionsRoot",
                  "InvalidUnclesHash", "Other"}

\* K::create hands the input back with its error
CreateErrInput == TRUE

Callers == {"c1", "c2"}

\* thread ids 0 .. number_of_threads - 1
VerifierIds == 0..(NumCpus - 1)

\* struct Config, the part that new() reads
DefaultConfig == [scale_verifiers |-> FALSE, num_verifiers |-> NumCpus]

Max(a, b) == IF a >= b THEN a ELSE b
Min(a, b) == IF a <= b THEN a ELSE b

\* enum State
Work(x) == [kind |-> "Work", n |-> x]
Exit == [kind |-> "Exit", n |-> 0]

NoArg == [none |-> TRUE]

VARIABLES
    unverified,         \* Verification::unverified: hashes of the queued items
    verifying,          \* Verification::verifying: [hash, output]
    verified,           \* Verification::verified: hashes of the verified items
    bad,                \* Verification::bad
    sizes,              \* Verification::sizes
    processing,         \* VerificationQueue::processing (the key set; the
                        \* value of key h is (difficulty(h), parent_hash(h)))
    processing_parents, \* VerificationQueue::processing_parents
    total_difficulty,   \* VerificationQueue::total_difficulty
    signalled,          \* QueueSignal::signalled
    sent,               \* BlockVerified messages sent on message_channel
                        \* since the last QueueSignal::reset
    deleting,           \* VerificationQueue::deleting
    state,              \* VerificationQueue::state
    verifier_handles,   \* ids of the spawned verifier threads
    config,             \* the Config handed to new(): the queue keeps
                        \* config.scale_verifiers as self.scale_verifiers
    ticks_since_adjustment, \* VerificationQueue::ticks_since_adjustment
    verify_ok,          \* K::verify, per item verified so far: TRUE for Ok
    cpc,                \* per caller: the position in its call
    carg,               \* per caller: the argument of its call
    wpc,                \* per verifier: the position in its loop
    witem,              \* per verifier: the item it is verifying
    accepted,           \* history: hashes in the order pushed to unverified
    drained,            \* history: hashes in the order returned by drain
    imports,            \* history: number of import calls started
    calls,              \* history: number of clear and mark_as_* calls started
    last                \* history: the call that returned last

vars == <<unverified, verifying, verified, bad, sizes, processing,
          processing_parents, total_difficulty, signalled, sent, deleting, state,
          verifier_handles, config, ticks_since_adjustment,
          verify_ok, cpc, carg, wpc, witem,
          accepted, drained, imports, calls, last>>

queues == <<unverified, verifying, verified>>
maps == <<processing, processing_parents, total_difficulty>>
signal == <<signalled, sent>>
scaling == <<state, verifier_handles, config, ticks_since_adjustment>>
pool == <<scaling, verify_ok, deleting>>
workers == <<wpc, witem>>
history == <<accepted, drained, imports, calls>>


(***************************************************************************)
(* Helpers                                                                 *)
(***************************************************************************)
\* AtomicUsize::fetch_add / fetch_sub: wrapping arithmetic
fetch_add(counter, n) == (counter + n) % UsizeModulus
fetch_sub(counter, n) == (counter - n + UsizeModulus) % UsizeModulus

\* HashMap::get(..) with the `children_count = 0` default of import
children_count(parents, p) == IF p \in DOMAIN parents THEN parents[p] ELSE 0

\* HashMap::insert
map_insert(m, k, v) == [x \in DOMAIN m \cup {k} |-> IF x = k THEN v ELSE m[x]]

\* HashMap::remove
map_remove(m, k) == [x \in DOMAIN m \ {k} |-> m[x]]

EmptyMap == [x \in {} |-> 0]

\* Option
None == <<>>
Some(v) == <<v>>

(***************************************************************************)
(* Locks held across steps, read off the callers' positions               *)
(***************************************************************************)
\* a mark_as_good / mark_as_bad call stuck in
\* decrease_processing_children_count
GoodHung == {c \in Callers : cpc[c] = "mark_as_good_hung"}
BadHung == {c \in Callers : cpc[c] = "mark_as_bad_hung"}
\* a drain call between reset (617) and set_async (619)
Draining == {c \in Callers : cpc[c] = "drain_set_async"}
\* a clear call past line 439
Clearing == {c \in Callers : cpc[c] \in {"clear_td", "clear_processing", "clear_parents"}}

\* a verifier between taking the unverified lock at line 324 and giving it
\* back at line 336 or 343
WaitingForWork == {w \in VerifierIds : wpc[w] \in {"exit_check", "parking"}}

\* verification.unverified, .verifying: held by clear from line 437 on;
\* verifying also by a verifier that waits for verified at line 378 / 388
unverified_locked == Clearing # {} \/ WaitingForWork # {}
verifying_locked == Clearing # {} \/ \E w \in VerifierIds : wpc[w] = "verify_blocked"
\* verification.verified: clear, mark_as_bad from line 557 on, drain
verified_locked == Clearing # {} \/ BadHung # {} \/ Draining # {}
\* verification.bad: mark_as_bad from line 559 on
bad_locked == BadHung # {}
\* processing: write-held by mark_as_bad (560) and mark_as_good (597)
processing_locked == GoodHung # {} \/ BadHung # {}
\* total_difficulty: the `td` guard of lines 565 / 578 / 600 is alive
\* during decrease_processing_children_count
total_difficulty_locked == GoodHung # {} \/ BadHung # {}
\* processing_parents: read-held by the stuck decrement (541), write-held
\* by import from line 507 to its return
processing_parents_read_locked == GoodHung # {} \/ BadHung # {}
processing_parents_write_locked == \E c \in Callers : cpc[c] = "import_push"

(***************************************************************************)
(* Construction                                                            *)
(***************************************************************************)
\* VerificationQueue::new
New(cfg) ==
    LET max_verifiers == NumCpus
        default_amount == Max(1, Min(max_verifiers, cfg.num_verifiers))
        number_of_threads == IF cfg.scale_verifiers THEN max_verifiers
                             ELSE default_amount
    IN  /\ unverified = <<>>
        /\ verifying = <<>>
        /\ verified = <<>>
        /\ bad = {}
        /\ sizes = [unverified |-> 0, verifying |-> 0, verified |-> 0]
        /\ processing = {}
        /\ processing_parents = EmptyMap
        /\ total_difficulty = 0
        /\ signalled = FALSE
        /\ deleting = FALSE
        /\ sent = 0
        /\ config = cfg
        /\ ticks_since_adjustment = 0
        /\ state = Work(default_amount)
        /\ verifier_handles = 0..(number_of_threads - 1)
        /\ wpc = [w \in VerifierIds |->
                    IF w < number_of_threads THEN "gate" ELSE "none"]
        /\ witem = [w \in VerifierIds |-> 0]

\* the queue after VerificationQueue::new(cfg, ..), and its callers
InitWith(cfg) ==
    /\ New(cfg)
    /\ verify_ok = EmptyMap
    /\ cpc = [c \in Callers |-> "idle"]
    /\ carg = [c \in Callers |-> NoArg]
    /\ accepted = <<>>
    /\ drained = <<>>
    /\ imports = 0
    /\ calls = 0
    /\ last = [op |-> "new", result |-> "Ok", input |-> FALSE, solo |-> None]

Init == InitWith(DefaultConfig)

\* struct VerifierSettings: the values new() tells apart
Configs == [scale_verifiers : BOOLEAN, num_verifiers : 0..(NumCpus + 1)]

\* a queue built with any of them
InitConfig == \E cfg \in Configs : InitWith(cfg)

\* history kept with the last call: the item of an accepted import that was
\* called with all three stages empty (quiet: and with no verifier holding
\* an item), kept over a following flush
solo_after(c, op, result) ==
    IF op = "import" /\ result = "Ok"
    THEN IF carg[c].fresh
         THEN Some([hash |-> carg[c].hash, quiet |-> carg[c].quiet])
         ELSE None
    ELSE IF op = "flush" THEN last.solo
    ELSE None

\* the call `op` of caller c returns `result`; input: with the input handed
\* back to the caller
Return(c, op, result, input) ==
    /\ cpc' = [cpc EXCEPT ![c] = "idle"]
    /\ carg' = [carg EXCEPT ![c] = NoArg]
    /\ last' = [op |-> op, result |-> result, input |-> input,
                solo |-> solo_after(c, op, result)]

\* caller c starts an import call
CallImport(c) ==
    /\ cpc[c] = "idle"
    /\ imports < MaxImports
    /\ imports' = imports + 1
    /\ UNCHANGED <<accepted, drained, calls>>

\* caller c starts a clear, mark_as_good or mark_as_bad call
Call(c) ==
    /\ cpc[c] = "idle"
    /\ calls < MaxCalls
    /\ calls' = calls + 1
    /\ UNCHANGED <<accepted, drained, imports>>

\* caller c moves on to position pc of its call
Goto(c, pc, arg) ==
    /\ cpc' = [cpc EXCEPT ![c] = pc]
    /\ carg' = [carg EXCEPT ![c] = arg]
    /\ UNCHANGED last

(***************************************************************************)
(* import                                                                  *)
(***************************************************************************)
\* positions of a verifier between lines 346 and 401: it holds a claimed item
HoldingItem == {"verify", "verify_blocked"}

\* lines 477-482: the call, and the first look into processing
import(c, x) ==
    /\ CallImport(c)
    /\ ~processing_locked
    /\ IF x.hash \in processing
       THEN Return(c, "import", "AlreadyQueued", TRUE)
       ELSE Goto(c, "import_bad",
                 [hash |-> x.hash, raw |-> x.raw,
                  fresh |-> unverified = <<>> /\ verifying = <<>> /\ verified = <<>>,
                  quiet |-> \A w \in VerifierIds : wpc[w] \notin HoldingItem])
    /\ UNCHANGED <<queues, bad, sizes, maps, signal, pool, workers>>

\* a faulty import for sensitivity analysis: the parent_hash case does not
\* insert the hash
import_bad_without_insert(c) ==
    LET x == carg[c] IN
    /\ cpc[c] = "import_bad"
    /\ ~bad_locked
    /\ IF x.hash \in bad \/ x.raw \in bad \/ parent_hash(x.hash) \in bad
       THEN Return(c, "import", "KnownBad", TRUE)
       ELSE Goto(c, "import_create", x)
    /\ UNCHANGED <<queues, bad, sizes, maps, signal, pool, workers, history>>

\* lines 484-493: the look into bad
import_bad(c) ==
    LET x == carg[c] IN
    /\ cpc[c] = "import_bad"
    /\ ~bad_locked
    /\ IF x.hash \in bad \/ x.raw \in bad
       THEN /\ Return(c, "import", "KnownBad", TRUE)
            /\ UNCHANGED bad
       ELSE IF parent_hash(x.hash) \in bad
       THEN /\ bad' = bad \cup {x.hash}
            /\ Return(c, "import", "KnownBad", TRUE)
       ELSE /\ Goto(c, "import_create", x)
            /\ UNCHANGED bad
    /\ UNCHANGED <<queues, sizes, maps, signal, pool, workers, history>>

\* a faulty import for sensitivity analysis: every error of K::create but
\* TemporarilyInvalid marks the hash
import_create_marking_hash(c, r) ==
    LET x == carg[c] IN
    /\ cpc[c] = "import_create"
    /\ CASE r = "Ok" ->
              /\ ~processing_locked
              /\ IF x.hash \in processing
                 THEN /\ Return(c, "import", "AlreadyQueued", FALSE)
                      /\ UNCHANGED processing
                 ELSE /\ processing' = processing \cup {x.hash}
                      /\ Goto(c, "import_size", x)
              /\ UNCHANGED bad
         [] r = "TemporarilyInvalid" ->
              /\ Return(c, "import", r, CreateErrInput)
              /\ UNCHANGED <<bad, processing>>
         [] OTHER ->
              /\ ~bad_locked
              /\ bad' = bad \cup {x.hash}
              /\ Return(c, "import", r, CreateErrInput)
              /\ UNCHANGED processing
    /\ UNCHANGED <<queues, sizes, processing_parents, total_difficulty,
                   signal, pool, workers, history>>

\* lines 495-499 and 517-536: K::create returns r; on Ok the first write of
\* processing, on Err the bad set
import_create(c, r) ==
    LET x == carg[c] IN
    /\ cpc[c] = "import_create"
    /\ CASE r = "Ok" ->
              /\ ~processing_locked
              /\ IF x.hash \in processing
                 THEN /\ Return(c, "import", "AlreadyQueued", FALSE)
                      /\ UNCHANGED processing
                 ELSE /\ processing' = processing \cup {x.hash}
                      /\ Goto(c, "import_size", x)
              /\ UNCHANGED bad
         [] r = "TemporarilyInvalid" ->
              /\ Return(c, "import", r, CreateErrInput)
              /\ UNCHANGED <<bad, processing>>
         [] r \in {"InvalidTransactionsRoot", "InvalidUnclesHash"} ->
              /\ ~bad_locked
              /\ bad' = bad \cup {x.raw}
              /\ Return(c, "import", r, CreateErrInput)
              /\ UNCHANGED processing
         [] OTHER ->
              /\ ~bad_locked
              /\ bad' = bad \cup {x.hash}
              /\ Return(c, "import", r, CreateErrInput)
              /\ UNCHANGED processing
    /\ UNCHANGED <<queues, sizes, processing_parents, total_difficulty,
                   signal, pool, workers, history>>

\* line 500
import_size(c) ==
    LET x == carg[c] IN
    /\ cpc[c] = "import_size"
    /\ sizes' = [sizes EXCEPT !.unverified = fetch_add(@, malloc_size_of(x.hash))]
    /\ Goto(c, "import_insert", x)
    /\ UNCHANGED <<queues, bad, maps, signal, pool, workers, history>>

\* lines 501-502: the second write of processing
import_insert(c) ==
    LET x == carg[c] IN
    /\ cpc[c] = "import_insert"
    /\ ~processing_locked
    /\ processing' = processing \cup {x.hash}
    /\ Goto(c, "import_td", x)
    /\ UNCHANGED <<queues, bad, sizes, processing_parents, total_difficulty,
                   signal, pool, workers, history>>

\* lines 503-506
import_td(c) ==
    LET x == carg[c] IN
    /\ cpc[c] = "import_td"
    /\ ~total_difficulty_locked
    /\ total_difficulty' = total_difficulty + difficulty(x.hash)
    /\ Goto(c, "import_parents", x)
    /\ UNCHANGED <<queues, bad, sizes, processing, processing_parents,
                   signal, pool, workers, history>>

\* lines 507-512: the write lock of processing_parents is kept
import_parents(c) ==
    LET x == carg[c]
        p == parent_hash(x.hash)
    IN
    /\ cpc[c] = "import_parents"
    /\ ~processing_parents_read_locked
    /\ ~processing_parents_write_locked
    /\ processing_parents' =
          map_insert(processing_parents, p, children_count(processing_parents, p) + 1)
    /\ Goto(c, "import_push", x)
    /\ UNCHANGED <<queues, bad, sizes, processing, total_difficulty,
                   signal, pool, workers, history>>

\* Condvar::notify_all on more_to_verify
notify_more_to_verify(pcs) ==
    [w \in VerifierIds |-> IF pcs[w] = "waiting" THEN "woken" ELSE pcs[w]]

\* a faulty import for sensitivity analysis: the item is pushed without the
\* unverified lock
import_push_unlocked(c) ==
    LET x == carg[c] IN
    /\ cpc[c] = "import_push"
    /\ unverified' = Append(unverified, x.hash)
    /\ accepted' = Append(accepted, x.hash)
    /\ wpc' = notify_more_to_verify(wpc)
    /\ Return(c, "import", "Ok", FALSE)
    /\ UNCHANGED <<verifying, verified, bad, sizes, maps, signal, pool,
                   witem, drained, imports, calls>>

\* lines 513-515
import_push(c) ==
    LET x == carg[c] IN
    /\ cpc[c] = "import_push"
    /\ ~unverified_locked
    /\ unverified' = Append(unverified, x.hash)
    /\ accepted' = Append(accepted, x.hash)
    /\ wpc' = notify_more_to_verify(wpc)
    /\ Return(c, "import", "Ok", FALSE)
    /\ UNCHANGED <<verifying, verified, bad, sizes, maps, signal, pool,
                   witem, drained, imports, calls>>

(***************************************************************************)
(* QueueSignal                                                             *)
(***************************************************************************)
\* set_sync / set_async: the value of `signalled` afterwards; the message is
\* sent by the caller whose compare_and_swap found FALSE
signal_set(sig, del) == IF del THEN sig ELSE TRUE

\* a faulty QueueSignal for sensitivity analysis: the message is sent
\* whatever compare_and_swap found
signal_sent_without_swap(sig, del) == IF del THEN 0 ELSE 1

\* lines 169-174, 183-188: the number of messages a set_sync / set_async
\* sends: one when compare_and_swap found FALSE
signal_sent(sig, del) == IF del \/ sig THEN 0 ELSE 1

(***************************************************************************)
(* The verifier threads                                                    *)
(***************************************************************************)

\* Condvar::notify_all on empty
notify_empty(pcs) ==
    [c \in Callers |-> IF pcs[c] = "flush_wait" THEN "flush_woken" ELSE pcs[c]]

\* lines 305-320: the gate on the pool state
verifier_gate(w) ==
    /\ wpc[w] = "gate"
    /\ wpc' = [wpc EXCEPT ![w] =
                 IF state.kind = "Exit" THEN "exited"
                 ELSE IF w < state.n THEN "wait_for_work"
                 ELSE "asleep"]
    /\ UNCHANGED <<queues, bad, sizes, maps, signal, pool, witem, cpc, carg,
                   last, history>>

\* lines 330-342, entered with unverified locked: wait on more_to_verify while
\* unverified is empty, leave on State::Exit
after_wait_for_work ==
    IF unverified = <<>>
    THEN IF state.kind = "Exit" THEN "exited" ELSE "waiting"
    ELSE IF state.kind = "Exit" THEN "exited" ELSE "claim"

\* lines 323-343: wait for work if empty
verifier_wait_for_work(w) ==
    /\ wpc[w] = "wait_for_work"
    /\ ~unverified_locked
    /\ unverified = <<>> => ~verifying_locked
    /\ cpc' = IF unverified = <<>> /\ verifying = <<>> THEN notify_empty(cpc) ELSE cpc
    /\ wpc' = [wpc EXCEPT ![w] = after_wait_for_work]
    /\ UNCHANGED <<queues, bad, sizes, maps, signal, pool, witem, carg,
                   last, history>>

\* line 336 returns: the verifier was notified on more_to_verify
verifier_woken(w) ==
    /\ wpc[w] = "woken"
    /\ ~unverified_locked
    /\ wpc' = [wpc EXCEPT ![w] = after_wait_for_work]
    /\ UNCHANGED <<queues, bad, sizes, maps, signal, pool, witem, cpc, carg,
                   last, history>>

\* a faulty claim for sensitivity analysis: the placeholder goes to the head
\* of verifying
verifier_claim_push_front(w) ==
    /\ wpc[w] = "claim"
    /\ ~unverified_locked
    /\ ~verifying_locked
    /\ IF unverified = <<>>
       THEN /\ wpc' = [wpc EXCEPT ![w] = "gate"]
            /\ UNCHANGED <<unverified, verifying, sizes, witem>>
       ELSE LET item == Head(unverified) IN
            /\ unverified' = Tail(unverified)
            /\ sizes' = [sizes EXCEPT !.unverified = fetch_sub(@, malloc_size_of(item))]
            /\ verifying' = <<[hash |-> item, output |-> None]>> \o verifying
            /\ witem' = [witem EXCEPT ![w] = item]
            /\ wpc' = [wpc EXCEPT ![w] = "verify"]
    /\ UNCHANGED <<verified, bad, maps, signal, pool, cpc, carg, last, history>>

\* lines 346-359: claim the head of unverified
verifier_claim(w) ==
    /\ wpc[w] = "claim"
    /\ ~unverified_locked
    /\ ~verifying_locked
    /\ IF unverified = <<>>
       THEN /\ wpc' = [wpc EXCEPT ![w] = "gate"]
            /\ UNCHANGED <<unverified, verifying, sizes, witem>>
       ELSE LET item == Head(unverified) IN
            /\ unverified' = Tail(unverified)
            /\ sizes' = [sizes EXCEPT !.unverified = fetch_sub(@, malloc_size_of(item))]
            /\ verifying' = Append(verifying, [hash |-> item, output |-> None])
            /\ witem' = [witem EXCEPT ![w] = item]
            /\ wpc' = [wpc EXCEPT ![w] = "verify"]
    /\ UNCHANGED <<verified, bad, maps, signal, pool, cpc, carg, last, history>>

\* lines 409-433; q = [verifying, verified, bad, removed_size, inserted_size]
\* a faulty drain_verifying for sensitivity analysis: push_front instead of
\* push_back on verified
RECURSIVE drain_verifying_loop_push_front(_)
drain_verifying_loop_push_front(q) ==
    IF q.verifying = <<>> \/ Head(q.verifying).output = None
    THEN q
    ELSE LET output == Head(q.verifying).output[1]
             size == malloc_size_of(output)
             popped == [q EXCEPT !.verifying = Tail(@),
                                 !.removed_size = @ + size]
         IN  IF parent_hash(output) \in q.bad
             THEN drain_verifying_loop_push_front(
                      [popped EXCEPT !.bad = @ \cup {output}])
             ELSE drain_verifying_loop_push_front(
                      [popped EXCEPT !.inserted_size = @ + size,
                                     !.verified = <<output>> \o @])

\* a faulty drain_verifying for sensitivity analysis: the hash of a dropped
\* item is not inserted into bad
RECURSIVE drain_verifying_loop_forgetting(_)
drain_verifying_loop_forgetting(q) ==
    IF q.verifying = <<>> \/ Head(q.verifying).output = None
    THEN q
    ELSE LET output == Head(q.verifying).output[1]
             size == malloc_size_of(output)
             popped == [q EXCEPT !.verifying = Tail(@),
                                 !.removed_size = @ + size]
         IN  IF parent_hash(output) \in q.bad
             THEN drain_verifying_loop_forgetting(popped)
             ELSE drain_verifying_loop_forgetting(
                      [popped EXCEPT !.inserted_size = @ + size,
                                     !.verified = Append(@, output)])

RECURSIVE drain_verifying_loop(_)
drain_verifying_loop(q) ==
    IF q.verifying = <<>> \/ Head(q.verifying).output = None
    THEN q
    ELSE LET output == Head(q.verifying).output[1]
             size == malloc_size_of(output)
             popped == [q EXCEPT !.verifying = Tail(@),
                                 !.removed_size = @ + size]
         IN  IF parent_hash(output) \in q.bad
             THEN drain_verifying_loop([popped EXCEPT !.bad = @ \cup {output}])
             ELSE drain_verifying_loop(
                      [popped EXCEPT !.inserted_size = @ + size,
                                     !.verified = Append(@, output)])

drain_verifying(ving, ved, b, sz) ==
    LET q == drain_verifying_loop([verifying |-> ving, verified |-> ved, bad |-> b,
                                   removed_size |-> 0, inserted_size |-> 0])
    IN  [verifying |-> q.verifying, verified |-> q.verified, bad |-> q.bad,
         sizes |-> [sz EXCEPT !.verifying = fetch_sub(@, q.removed_size),
                              !.verified = fetch_add(@, q.inserted_size)]]

\* lines 365-374: the index of the first placeholder of that hash, 0 for none,
\* positions counted from 1
placeholder_index(ving, hash) ==
    LET found == {i \in 1..Len(ving) : ving[i].hash = hash}
    IN  IF found = {} THEN 0 ELSE CHOOSE i \in found : \A j \in found : i <= j

\* VecDeque::retain(|e| e.hash != hash)
RECURSIVE retain_other(_, _)
retain_other(ving, hash) ==
    IF ving = <<>> THEN <<>>
    ELSE IF Head(ving).hash = hash THEN retain_other(Tail(ving), hash)
    ELSE <<Head(ving)>> \o retain_other(Tail(ving), hash)

\* lines 363-385: K::verify returned Ok(verified)
verify_ok_commit(w) ==
    LET hash == witem[w]
        idx == placeholder_index(verifying, hash)
        set == IF idx = 0 THEN verifying
               ELSE [verifying EXCEPT ![idx].output = Some(hash)]
        added == IF idx = 0 THEN sizes
                 ELSE [sizes EXCEPT !.verifying = fetch_add(@, malloc_size_of(hash))]
    IN
    /\ ~verifying_locked
    \* a drain past its reset gives verified back: the wait is part of the step
    /\ idx = 1 => Draining = {}
    /\ IF idx = 1
       THEN IF BadHung # {}
            THEN \* line 378: the verifier waits for verified, holding verifying
                 /\ verifying' = set
                 /\ sizes' = added
                 /\ wpc' = [wpc EXCEPT ![w] = "verify_blocked"]
                 /\ UNCHANGED <<verified, bad>>
            ELSE LET d == drain_verifying(set, verified, bad, added) IN
                 /\ verifying' = d.verifying
                 /\ verified' = d.verified
                 /\ bad' = d.bad
                 /\ sizes' = d.sizes
                 /\ wpc' = [wpc EXCEPT ![w] = "signal"]
       ELSE /\ verifying' = set
            /\ sizes' = added
            /\ wpc' = [wpc EXCEPT ![w] = "gate"]
            /\ UNCHANGED <<verified, bad>>

\* a faulty commit for sensitivity analysis: after a failure the completed
\* placeholders at the head of verifying are left where they are
verify_err_commit_without_drain(w) ==
    /\ ~verifying_locked
    /\ Draining = {}
    /\ verifying' = retain_other(verifying, witem[w])
    /\ bad' = bad \cup {witem[w]}
    /\ wpc' = [wpc EXCEPT ![w] = "gate"]
    /\ UNCHANGED <<verified, sizes>>

\* lines 386-400: K::verify returned Err
verify_err_commit(w) ==
    LET hash == witem[w]
        retained == retain_other(verifying, hash)
    IN
    /\ ~verifying_locked
    /\ Draining = {}
    /\ IF BadHung # {}
       THEN \* line 388: the verifier waits for verified, holding verifying
            /\ wpc' = [wpc EXCEPT ![w] = "verify_blocked"]
            /\ UNCHANGED <<verifying, verified, bad, sizes>>
       ELSE IF retained # <<>> /\ Head(retained).output # None
       THEN LET d == drain_verifying(retained, verified, bad \cup {hash}, sizes) IN
            /\ verifying' = d.verifying
            /\ verified' = d.verified
            /\ bad' = d.bad
            /\ sizes' = d.sizes
            /\ wpc' = [wpc EXCEPT ![w] = "signal"]
       ELSE /\ verifying' = retained
            /\ bad' = bad \cup {hash}
            /\ wpc' = [wpc EXCEPT ![w] = "gate"]
            /\ UNCHANGED <<verified, sizes>>

\* lines 361-401: K::verify returns Ok (ok) or Err, the same for every call
\* on one item, and the verifier commits the outcome
verifier_verify(w, ok) ==
    /\ wpc[w] = "verify"
    /\ witem[w] \in DOMAIN verify_ok => ok = verify_ok[witem[w]]
    /\ verify_ok' = map_insert(verify_ok, witem[w], ok)
    /\ IF ok THEN verify_ok_commit(w) ELSE verify_err_commit(w)
    /\ witem' = [witem EXCEPT ![w] = 0]
    /\ UNCHANGED <<unverified, maps, signal, scaling, deleting,
                   cpc, carg, last, history>>

\* a faulty verifier for sensitivity analysis: the commit is not followed
\* by set_sync
verifier_signal_skipped(w) ==
    /\ wpc[w] = "signal"
    /\ wpc' = [wpc EXCEPT ![w] = "gate"]
    /\ UNCHANGED <<queues, bad, sizes, maps, signal, pool, witem, cpc, carg,
                   last, history>>

\* lines 402-405: ready.set_sync()
verifier_signal(w) ==
    /\ wpc[w] = "signal"
    /\ signalled' = signal_set(signalled, deleting)
    /\ sent' = sent + signal_sent(signalled, deleting)
    /\ wpc' = [wpc EXCEPT ![w] = "gate"]
    /\ UNCHANGED <<queues, bad, sizes, maps, pool, witem, cpc, carg, last, history>>

(***************************************************************************)
(* clear, flush, drain                                                     *)
(***************************************************************************)
\* lines 437-447: the three queue locks are taken and kept
clear(c) ==
    /\ Call(c)
    /\ ~unverified_locked
    /\ ~verifying_locked
    /\ ~verified_locked
    /\ unverified' = <<>>
    /\ verifying' = <<>>
    /\ verified' = <<>>
    /\ sizes' = [unverified |-> 0, verifying |-> 0, verified |-> 0]
    /\ Goto(c, "clear_td", NoArg)
    /\ UNCHANGED <<bad, maps, signal, pool, workers>>

\* a faulty clear for sensitivity analysis: total_difficulty is left as it is
clear_td_skipped(c) ==
    /\ cpc[c] = "clear_td"
    /\ Goto(c, "clear_processing", NoArg)
    /\ UNCHANGED <<queues, bad, sizes, maps, signal, pool, workers, history>>

\* line 448
clear_td(c) ==
    /\ cpc[c] = "clear_td"
    /\ ~total_difficulty_locked
    /\ total_difficulty' = 0
    /\ Goto(c, "clear_processing", NoArg)
    /\ UNCHANGED <<queues, bad, sizes, processing, processing_parents, signal,
                   pool, workers, history>>

\* line 450
clear_processing(c) ==
    /\ cpc[c] = "clear_processing"
    /\ ~processing_locked
    /\ processing' = {}
    /\ Goto(c, "clear_parents", NoArg)
    /\ UNCHANGED <<queues, bad, sizes, processing_parents, total_difficulty,
                   signal, pool, workers, history>>

\* lines 451-452
clear_parents(c) ==
    /\ cpc[c] = "clear_parents"
    /\ ~processing_parents_read_locked
    /\ ~processing_parents_write_locked
    /\ processing_parents' = EmptyMap
    /\ Return(c, "clear", "Ok", FALSE)
    /\ UNCHANGED <<queues, bad, sizes, processing, total_difficulty, signal,
                   pool, workers, history>>

\* a faulty flush for sensitivity analysis: it does not look at verifying
flush_check_unverified_only(c) ==
    IF unverified # <<>>
    THEN Goto(c, "flush_wait", NoArg)
    ELSE Return(c, "flush", "Ok", FALSE)

\* lines 456-459, entered with unverified locked
flush_check(c) ==
    IF unverified # <<>> \/ verifying # <<>>
    THEN Goto(c, "flush_wait", NoArg)
    ELSE Return(c, "flush", "Ok", FALSE)

\* lines 455-460: the call
flush(c) ==
    /\ cpc[c] = "idle"
    /\ ~unverified_locked
    /\ ~verifying_locked
    /\ flush_check(c)
    /\ UNCHANGED <<queues, bad, sizes, maps, signal, pool, workers, history>>

\* line 458 returns: the caller was notified on empty
flush_woken(c) ==
    /\ cpc[c] = "flush_woken"
    /\ ~unverified_locked
    /\ ~verifying_locked
    /\ flush_check(c)
    /\ UNCHANGED <<queues, bad, sizes, maps, signal, pool, workers, history>>

RECURSIVE sum_sizes(_)
sum_sizes(items) ==
    IF items = <<>> THEN 0 ELSE malloc_size_of(Head(items)) + sum_sizes(Tail(items))

\* lines 609-622
drain(c, max) ==
    LET count == Min(max, Len(verified))
        result == SubSeq(verified, 1, count)
        rest == SubSeq(verified, count + 1, Len(verified))
    IN
    /\ cpc[c] = "idle"
    /\ ~verified_locked
    /\ verified' = rest
    /\ sizes' = [sizes EXCEPT !.verified = fetch_sub(@, sum_sizes(result))]
    /\ signalled' = IF rest # <<>> THEN signal_set(FALSE, deleting) ELSE FALSE
    /\ sent' = IF rest # <<>> THEN signal_sent(FALSE, deleting) ELSE 0
    /\ drained' = drained \o result
    /\ Return(c, "drain", "Ok", FALSE)
    /\ UNCHANGED <<unverified, verifying, bad, maps, pool, workers, accepted,
                   imports, calls>>

\* a faulty drain for sensitivity analysis: it takes every verified item,
\* whatever max is
drain_reset_taking_all(c, max) ==
    /\ cpc[c] = "idle"
    /\ ~verified_locked
    /\ verified' = <<>>
    /\ sizes' = [sizes EXCEPT !.verified = fetch_sub(@, sum_sizes(verified))]
    /\ signalled' = FALSE
    /\ sent' = 0
    /\ drained' = drained \o verified
    /\ Return(c, "drain", "Ok", FALSE)
    /\ UNCHANGED <<unverified, verifying, bad, maps, pool, workers, accepted,
                   imports, calls>>

\* lines 609-618, drain step by step: the items are taken and the signal is
\* reset; with items left the caller goes on to set_async, holding verified
drain_reset(c, max) ==
    LET count == Min(max, Len(verified))
        result == SubSeq(verified, 1, count)
        rest == SubSeq(verified, count + 1, Len(verified))
    IN
    /\ cpc[c] = "idle"
    /\ ~verified_locked
    /\ verified' = rest
    /\ sizes' = [sizes EXCEPT !.verified = fetch_sub(@, sum_sizes(result))]
    /\ signalled' = FALSE
    /\ sent' = 0
    /\ drained' = drained \o result
    /\ IF rest # <<>>
       THEN Goto(c, "drain_set_async", NoArg)
       ELSE Return(c, "drain", "Ok", FALSE)
    /\ UNCHANGED <<unverified, verifying, bad, maps, pool, workers, accepted,
                   imports, calls>>

\* lines 618-621: ready_signal.set_async() and the return
drain_set_async(c) ==
    /\ cpc[c] = "drain_set_async"
    /\ signalled' = signal_set(signalled, deleting)
    /\ sent' = sent + signal_sent(signalled, deleting)
    /\ Return(c, "drain", "Ok", FALSE)
    /\ UNCHANGED <<queues, bad, sizes, maps, pool, workers, history>>

(***************************************************************************)
(* num_verifiers, scale_verifiers, collect_garbage                         *)
(***************************************************************************)
\* lines 684-689, on a live queue (state is Work)
num_verifiers == state.n

\* Condvar::notify_all on state.1
notify_state(pcs) ==
    [w \in VerifierIds |-> IF pcs[w] = "asleep" THEN "gate" ELSE pcs[w]]

\* a faulty scale_verifiers for sensitivity analysis: no lower limit
scale_verifiers_without_floor(c, target) ==
    /\ cpc[c] = "idle"
    /\ state' = Work(Min(Cardinality(verifier_handles), target))
    /\ wpc' = notify_state(wpc)
    /\ Return(c, "scale_verifiers", "Ok", FALSE)
    /\ UNCHANGED <<queues, bad, sizes, maps, signal, verifier_handles, config,
                   ticks_since_adjustment, verify_ok, deleting, witem, history>>

\* lines 750-759
scale_verifiers(c, target) ==
    /\ cpc[c] = "idle"
    /\ state' = Work(Max(1, Min(Cardinality(verifier_handles), target)))
    /\ wpc' = notify_state(wpc)
    /\ Return(c, "scale_verifiers", "Ok", FALSE)
    /\ UNCHANGED <<queues, bad, sizes, maps, signal, verifier_handles, config,
                   ticks_since_adjustment, verify_ok, deleting, witem, history>>

\* lines 702-707: u_len
collect_garbage(c) ==
    /\ cpc[c] = "idle"
    /\ ~unverified_locked
    /\ Goto(c, "collect_garbage_verifying", [u_len |-> Len(unverified)])
    /\ UNCHANGED <<queues, bad, sizes, maps, signal, pool, workers, history>>

\* line 708
collect_garbage_verifying(c) ==
    /\ cpc[c] = "collect_garbage_verifying"
    /\ ~verifying_locked
    /\ Goto(c, "collect_garbage_verified", carg[c])
    /\ UNCHANGED <<queues, bad, sizes, maps, signal, pool, workers, history>>

\* lines 710-717: v_len
collect_garbage_verified(c) ==
    /\ cpc[c] = "collect_garbage_verified"
    /\ ~verified_locked
    /\ Goto(c, "collect_garbage_processing",
            [u_len |-> carg[c].u_len, v_len |-> Len(verified)])
    /\ UNCHANGED <<queues, bad, sizes, maps, signal, pool, workers, history>>

\* lines 719-727: processing.write().shrink_to_fit(), the return of a queue
\* that does not scale, and the fetch_add on ticks_since_adjustment
collect_garbage_processing(c) ==
    /\ cpc[c] = "collect_garbage_processing"
    /\ ~processing_locked
    /\ IF ~config.scale_verifiers
       THEN /\ Return(c, "collect_garbage", "Ok", FALSE)
            /\ UNCHANGED ticks_since_adjustment
       ELSE /\ ticks_since_adjustment' = fetch_add(ticks_since_adjustment, 1)
            /\ IF ticks_since_adjustment + 1 >= READJUSTMENT_PERIOD
               THEN Goto(c, "collect_garbage_store", carg[c])
               ELSE Return(c, "collect_garbage", "Ok", FALSE)
    /\ UNCHANGED <<queues, bad, sizes, maps, signal, state, verifier_handles,
                   config, verify_ok, deleting, workers, history>>

\* line 724
collect_garbage_store(c) ==
    /\ cpc[c] = "collect_garbage_store"
    /\ ticks_since_adjustment' = 0
    /\ Goto(c, "collect_garbage_current", carg[c])
    /\ UNCHANGED <<queues, bad, sizes, maps, signal, state, verifier_handles,
                   config, verify_ok, deleting, workers, history>>

\* line 729
collect_garbage_current(c) ==
    /\ cpc[c] = "collect_garbage_current"
    /\ Goto(c, "collect_garbage_scale",
            [u_len |-> carg[c].u_len, v_len |-> carg[c].v_len,
             current |-> num_verifiers])
    /\ UNCHANGED <<queues, bad, sizes, maps, signal, pool, workers, history>>

\* a faulty target for sensitivity analysis: the verifier count moves the
\* wrong way
collect_garbage_target_reversed(u_len, v_len, current) ==
    LET diff == IF v_len >= u_len THEN v_len - u_len ELSE u_len - v_len
        total == v_len + u_len
    IN  IF u_len < MinUnverifiedForScaling THEN 1
        ELSE IF diff <= total \div ScalingTolerance THEN current
        ELSE IF v_len > u_len THEN current + 1
        ELSE current - 1

\* lines 731-744: the target handed to scale_verifiers
collect_garbage_target(u_len, v_len, current) ==
    LET diff == IF v_len >= u_len THEN v_len - u_len ELSE u_len - v_len
        total == v_len + u_len
    IN  IF u_len < MinUnverifiedForScaling THEN 1
        ELSE IF diff <= total \div ScalingTolerance THEN current
        ELSE IF v_len > u_len THEN current - 1
        ELSE current + 1

\* lines 731-744 and 750-759
collect_garbage_scale(c) ==
    LET target == collect_garbage_target(carg[c].u_len, carg[c].v_len,
                                         carg[c].current)
    IN
    /\ cpc[c] = "collect_garbage_scale"
    /\ state' = Work(Max(1, Min(Cardinality(verifier_handles), target)))
    /\ wpc' = notify_state(wpc)
    /\ Return(c, "collect_garbage", "Ok", FALSE)
    /\ UNCHANGED <<queues, bad, sizes, maps, signal, verifier_handles, config,
                   ticks_since_adjustment, verify_ok, deleting, witem, history>>

(***************************************************************************)
(* mark_as_good, mark_as_bad                                               *)
(***************************************************************************)
\* lines 540-549.  The read guard of line 541 lives to the end of the
\* `if let`, so the write() of line 542 waits for the caller's own read
\* lock: with an entry for parent_hash the call never gets past line 542,
\* without one it does nothing.
decrease_processing_children_count(m) ==
    IF parent_hash(m.item) \in DOMAIN processing_parents
    THEN [m EXCEPT !.outcome = "hung"]
    ELSE m

\* lines 564-568, 577-581, 599-603: processing.remove(hash) and, for an
\* entry, the U256 subtraction (which panics below zero) and the decrement.
\* m = [processing, total_difficulty, item, outcome, parents_read]
remove_processing(m, hash) ==
    IF hash \notin m.processing THEN m
    ELSE LET removed == [m EXCEPT !.processing = @ \ {hash}, !.item = hash] IN
         IF m.total_difficulty < difficulty(hash)
         THEN [removed EXCEPT !.outcome = "panic"]
         ELSE decrease_processing_children_count(
                  [removed EXCEPT !.total_difficulty = @ - difficulty(hash),
                                  !.parents_read = TRUE])

\* lines 598-604
RECURSIVE mark_as_good_loop(_, _)
mark_as_good_loop(m, hashes) ==
    IF hashes = <<>> \/ m.outcome # "done" THEN m
    ELSE mark_as_good_loop(remove_processing(m, Head(hashes)), Tail(hashes))

Slices == UNION {[1..n -> Hashes] : n \in 0..MaxBatch}

start_marking ==
    [processing |-> processing, total_difficulty |-> total_difficulty, item |-> 0,
     outcome |-> "done", parents_read |-> FALSE,
     bad |-> bad, verified |-> verified, removed_size |-> 0]

\* lines 593-606
mark_as_good(c, hashes) ==
    LET m == mark_as_good_loop(start_marking, hashes) IN
    /\ Call(c)
    /\ ~processing_locked
    /\ m.parents_read => ~processing_parents_write_locked
    /\ processing' = m.processing
    /\ total_difficulty' = m.total_difficulty
    /\ CASE m.outcome = "hung" -> Goto(c, "mark_as_good_hung", hashes)
         [] m.outcome = "panic" -> Return(c, "mark_as_good", "panic", FALSE)
         [] OTHER -> Return(c, "mark_as_good",
                            IF m.processing = {} THEN "true" ELSE "false", FALSE)
    /\ UNCHANGED <<queues, bad, sizes, processing_parents, signal, pool,
                   workers>>

\* lines 562-569
RECURSIVE mark_as_bad_loop(_, _)
mark_as_bad_loop(m, hashes) ==
    IF hashes = <<>> \/ m.outcome # "done" THEN m
    ELSE mark_as_bad_loop(
             remove_processing([m EXCEPT !.bad = @ \cup {Head(hashes)}], Head(hashes)),
             Tail(hashes))

\* lines 571-585: one pass over verified; m.verified is new_verified
RECURSIVE mark_as_bad_scan(_, _)
mark_as_bad_scan(m, outputs) ==
    IF outputs = <<>> \/ m.outcome # "done" THEN m
    ELSE LET output == Head(outputs) IN
         IF parent_hash(output) \in m.bad
         THEN mark_as_bad_scan(
                  remove_processing(
                      [m EXCEPT !.removed_size = @ + malloc_size_of(output),
                                !.bad = @ \cup {output}],
                      output),
                  Tail(outputs))
         ELSE mark_as_bad_scan([m EXCEPT !.verified = Append(@, output)],
                               Tail(outputs))

\* lines 553-589.  A panic in the first loop leaves verified as it is; a panic
\* in the scan drops the Drain and new_verified, which empties verified.
mark_as_bad(c, hashes) ==
    LET first == mark_as_bad_loop(start_marking, hashes)
        m == IF first.outcome = "done"
             THEN mark_as_bad_scan([first EXCEPT !.verified = <<>>], verified)
             ELSE first
    IN
    /\ Call(c)
    /\ IF hashes = <<>>
       THEN /\ Return(c, "mark_as_bad", "Ok", FALSE)
            /\ UNCHANGED <<verified, bad, sizes, processing, total_difficulty>>
       ELSE /\ ~verified_locked
            /\ ~bad_locked
            /\ ~processing_locked
            /\ m.parents_read => ~processing_parents_write_locked
            /\ bad' = m.bad
            /\ processing' = m.processing
            /\ total_difficulty' = m.total_difficulty
            /\ CASE m.outcome = "hung" ->
                      /\ Goto(c, "mark_as_bad_hung", hashes)
                      /\ UNCHANGED <<verified, sizes>>
                 [] m.outcome = "panic" ->
                      /\ verified' = IF first.outcome = "panic" THEN verified ELSE <<>>
                      /\ Return(c, "mark_as_bad", "panic", FALSE)
                      /\ UNCHANGED sizes
                 [] OTHER ->
                      /\ verified' = m.verified
                      /\ sizes' = [sizes EXCEPT !.verified = fetch_sub(@, m.removed_size)]
                      /\ Return(c, "mark_as_bad", "Ok", FALSE)
    /\ UNCHANGED <<unverified, verifying, processing_parents, signal, pool,
                   workers>>

\* lines 463-471
status(hash) ==
    IF hash \in processing THEN "Queued"
    ELSE IF hash \in bad THEN "Bad"
    ELSE "Unknown"

(***************************************************************************)
(* Specifications                                                          *)
(***************************************************************************)
ImportSteps(c) ==
    \/ \E x \in Inputs : import(c, x)
    \/ import_bad(c)
    \/ \E r \in CreateResults : import_create(c, r)
    \/ import_size(c)
    \/ import_insert(c)
    \/ import_td(c)
    \/ import_parents(c)
    \/ import_push(c)

ClearSteps(c) ==
    \/ clear(c)
    \/ clear_td(c)
    \/ clear_processing(c)
    \/ clear_parents(c)

FlushSteps(c) ==
    \/ flush(c)
    \/ flush_woken(c)

VerifierStep(w) ==
    \/ verifier_gate(w)
    \/ verifier_wait_for_work(w)
    \/ verifier_woken(w)
    \/ verifier_claim(w)
    \/ \E ok \in BOOLEAN : verifier_verify(w, ok)
    \/ verifier_signal(w)

\* Producers and a consumer: every caller imports and drains, all verifiers
\* run.
NextOrder ==
    \/ \E c \in Callers : ImportSteps(c)
    \/ \E c \in Callers : \E max \in 0..MaxDrain : drain(c, max)
    \/ \E w \in VerifierIds : VerifierStep(w)

SpecOrder == Init /\ [][NextOrder]_vars

(***************************************************************************)
(* C1                                                                      *)
(***************************************************************************)
\* s is a subsequence of t
RECURSIVE IsSubsequence(_, _)
IsSubsequence(s, t) ==
    IF s = <<>> THEN TRUE
    ELSE IF t = <<>> THEN FALSE
    ELSE IF Head(s) = Head(t) THEN IsSubsequence(Tail(s), Tail(t))
    ELSE IsSubsequence(s, Tail(t))

\* C1: the items handed out by the drain calls so far, in the order handed
\* out, are a subsequence of the items in the order they were pushed into
\* unverified.
C1_DrainedInAcceptanceOrder == IsSubsequence(drained, accepted)

\* two different items were handed out, the second one having completed
\* verification while the first was still being verified
C1_Witness ==
    /\ Len(drained) >= 2
    /\ drained[1] # drained[2]

(***************************************************************************)
(* C2                                                                      *)
(***************************************************************************)
\* One caller alone: it imports, clears, flushes and drains; all verifiers
\* run.
NextFlush ==
    \/ ImportSteps("c1")
    \/ ClearSteps("c1")
    \/ FlushSteps("c1")
    \/ \E max \in 0..MaxDrain : drain("c1", max)
    \/ \E w \in VerifierIds : VerifierStep(w)

SpecFlush == Init /\ [][NextFlush]_vars

\* what import(x); flush(); drain(max) with max >= 1 hands out and leaves
\* behind, x being last.solo's item
SoloDrained(max) ==
    LET x == last.solo[1].hash IN
    /\ x \in DOMAIN verify_ok
    /\ drained' = drained \o (IF verify_ok[x] THEN <<x>> ELSE <<>>)
    /\ unverified' = <<>>
    /\ verifying' = <<>>
    /\ verified' = <<>>

\* C2: the only caller imports x with all three stages empty,
\* import accepts it, the caller flushes and then drains with max >= 1: the
\* drain hands out exactly <<x>> if K::verify succeeded on x, nothing
\* otherwise, and leaves the three stages empty.
C2_SoloImportFlushDrain ==
    [][\A max \in 1..MaxDrain :
          (drain("c1", max) /\ last.op = "flush" /\ last.solo # None)
             => SoloDrained(max)]_vars

\* C2, away from clear: the same holds for an import called while no
\* verifier holds an item (one it claimed before a clear() and still
\* verifies: clear() does not stop it, and its failure makes the parent of x
\* bad).
C2_QuietSoloImportFlushDrain ==
    [][\A max \in 1..MaxDrain :
          (drain("c1", max) /\ last.op = "flush" /\ last.solo # None
             /\ last.solo[1].quiet)
             => SoloDrained(max)]_vars

\* a drain after a solo import and a flush has handed out its item
C2_Witness ==
    /\ last.op = "drain"
    /\ drained # <<>>
    /\ cpc["c1"] = "idle"
    /\ unverified = <<>> /\ verifying = <<>> /\ verified = <<>>

(***************************************************************************)
(* C3                                                                      *)
(***************************************************************************)
\* Producers, a consumer that acknowledges single items as good, one
\* verifier.
NextAck ==
    \/ \E c \in Callers : ImportSteps(c)
    \/ \E c \in Callers : \E max \in 0..MaxDrain : drain(c, max)
    \/ \E c \in Callers : \E h \in Hashes : mark_as_good(c, <<h>>)
    \/ VerifierStep(0)

SpecAck == Init /\ [][NextAck]_vars

\* C3, first sentence: an import of an item whose hash is in processing
\* returns AlreadyQueued and changes neither the stages nor bad, processing,
\* processing_parents and total_difficulty, wherever the item is by then.
C3_AlreadyQueued ==
    [][\A c \in Callers : \A x \in Inputs :
          (import(c, x) /\ x.hash \in processing)
             => /\ last'.op = "import"
                /\ last'.result = "AlreadyQueued"
                /\ UNCHANGED <<queues, bad, maps>>]_vars

\* an import was refused as AlreadyQueued for an item that had been drained
C3_AlreadyQueuedWitness ==
    /\ last.op = "import"
    /\ last.result = "AlreadyQueued"
    /\ \E i \in 1..Len(drained) : drained[i] \in processing

\* C3, second sentence: when mark_as_good(<<h>>) removes h from processing
\* and h is not in bad, the item can be imported again: the call is over, h
\* is out of processing and the look into processing of a new import (line
\* 480) is not kept waiting.
C3_ReimportAfterGood ==
    [][\A c \in Callers : \A h \in Hashes :
          (mark_as_good(c, <<h>>) /\ h \in processing /\ h \notin bad)
             => /\ cpc'[c] = "idle"
                /\ h \notin processing'
                /\ ~processing_locked']_vars

(***************************************************************************)
(* C4                                                                      *)
(***************************************************************************)
\* Concurrent imports and nothing else.
NextImport == \E c \in Callers : ImportSteps(c)

SpecImport == Init /\ [][NextImport]_vars

\* C4: an import that got past the look into processing returns KnownBad,
\* with its input, when the hash, the raw_hash or the parent_hash of the item
\* is in bad.  With the hash or the raw_hash in bad nothing changes; in the
\* parent_hash case (neither of them in bad) the hash is inserted into bad.
\* K::create is not called and the stages, processing, processing_parents
\* and total_difficulty stay as they are.
C4_KnownBad ==
    [][\A c \in Callers :
          LET x == carg[c] IN
          (import_bad(c) /\ (x.hash \in bad \/ x.raw \in bad
                               \/ parent_hash(x.hash) \in bad))
             => /\ last' = [op |-> "import", result |-> "KnownBad",
                            input |-> TRUE, solo |-> None]
                /\ cpc'[c] = "idle"
                /\ bad' = IF x.hash \in bad \/ x.raw \in bad THEN bad
                          ELSE bad \cup {x.hash}
                /\ UNCHANGED <<queues, maps>>]_vars

\* an import was refused for its bad parent, nothing having been verified:
\* bad holds the parent (refused by K::create) and the item
C4_Witness ==
    /\ last.op = "import"
    /\ last.result = "KnownBad"
    /\ verify_ok = EmptyMap
    /\ imports = 2
    /\ \E h \in Hashes : parent_hash(h) \in Hashes /\ bad = {parent_hash(h), h}

(***************************************************************************)
(* C5                                                                      *)
(***************************************************************************)
\* C5: when K::create fails, import returns the error with its input; bad
\* is unchanged for TemporarilyInvalid, gains the raw_hash and nothing else
\* for InvalidTransactionsRoot and InvalidUnclesHash, gains the hash and
\* nothing else for any other error; the stages, processing,
\* processing_parents and total_difficulty are unchanged.
C5_CreateFailure ==
    [][\A c \in Callers : \A r \in CreateResults \ {"Ok"} :
          LET x == carg[c] IN
          import_create(c, r)
             => /\ last' = [op |-> "import", result |-> r,
                            input |-> CreateErrInput, solo |-> None]
                /\ cpc'[c] = "idle"
                /\ bad' = CASE r = "TemporarilyInvalid" -> bad
                            [] r \in {"InvalidTransactionsRoot", "InvalidUnclesHash"} ->
                                  bad \cup {x.raw}
                            [] OTHER -> bad \cup {x.hash}
                /\ UNCHANGED <<queues, maps>>]_vars

\* K::create failed with InvalidTransactionsRoot or InvalidUnclesHash: the
\* raw_hash of an item is in bad and its hash is not
C5_Witness ==
    /\ last.op = "import"
    /\ last.result \in {"InvalidTransactionsRoot", "InvalidUnclesHash"}
    /\ \E x \in Inputs : x.raw \in bad /\ x.hash \notin bad

(***************************************************************************)
(* C6, C8                                                                  *)
(***************************************************************************)
\* Two callers that import, drain, acknowledge and clear concurrently; the
\* verifiers are not scheduled.
NextMaps ==
    \/ \E c \in Callers : ImportSteps(c)
    \/ \E c \in Callers : ClearSteps(c)
    \/ \E c \in Callers : \E max \in 0..MaxDrain : drain(c, max)
    \/ \E c \in Callers : \E hashes \in Slices : mark_as_good(c, hashes)
    \/ \E c \in Callers : \E hashes \in Slices : mark_as_bad(c, hashes)

SpecMaps == Init /\ [][NextMaps]_vars

\* no public operation is mid-execution
Quiescent == \A c \in Callers : cpc[c] = "idle"

RECURSIVE SumDifficulty(_)
SumDifficulty(hashes) ==
    IF hashes = {} THEN 0
    ELSE LET h == CHOOSE h \in hashes : TRUE
         IN  difficulty(h) + SumDifficulty(hashes \ {h})

\* C6: whenever no public operation is mid-execution, total_difficulty is
\* the sum of the difficulties of the entries of processing.
C6_TotalDifficulty ==
    Quiescent => total_difficulty = SumDifficulty(processing)

\* C8: whenever no public operation is mid-execution, processing_parents[p]
\* is the number of entries of processing with parent hash p, and there is
\* no entry with count 0.
C8_ProcessingParents ==
    Quiescent =>
        /\ \A p \in DOMAIN processing_parents : processing_parents[p] # 0
        /\ \A p \in {parent_hash(h) : h \in Hashes} \cup DOMAIN processing_parents :
              children_count(processing_parents, p)
                  = Cardinality({h \in processing : parent_hash(h) = p})

(***************************************************************************)
(* C7, C10                                                                 *)
(***************************************************************************)
Range(q) == {q[i] : i \in DOMAIN q}

\* no verifier is between the locks of its commit (lines 363-400)
NoCommitUnderWay == \A w \in VerifierIds : wpc[w] # "verify_blocked"

\* the hashes of the items in unverified, verifying and verified
InStages ==
    Range(unverified) \cup {verifying[i].hash : i \in DOMAIN verifying}
        \cup Range(verified)

\* C7: whenever no public operation and no commit of a verifier is
\* mid-execution, the hashes in processing are those of the items in the three
\* stages and of the items handed out by drain and not acknowledged since.
\* SpecOrder has no mark_as_good and no mark_as_bad: no drained item is
\* acknowledged.
C7_ProcessingIffInPipeline ==
    (Quiescent /\ NoCommitUnderWay) => processing = InStages \cup Range(drained)

\* C10, its conclusion: whenever no public operation and no commit of a
\* verifier is mid-execution, no item whose parent hash is in bad sits in
\* verified.
C10_NoBadParentInVerified ==
    (Quiescent /\ NoCommitUnderWay)
        => \A i \in DOMAIN verified : parent_hash(verified[i]) \notin bad

\* C10, in full: the hash of every accepted item whose parent hash is in bad
\* is in bad as well.
C10_BadClosedUnderDescent ==
    (Quiescent /\ NoCommitUnderWay)
        => \A h \in Range(accepted) : parent_hash(h) \in bad => h \in bad

(***************************************************************************)
(* C9                                                                      *)
(***************************************************************************)
\* A producer, a caller that clears and marks items bad, one verifier.
NextBad ==
    \/ ImportSteps("c1")
    \/ ClearSteps("c2")
    \/ \E hashes \in Slices : mark_as_bad("c2", hashes)
    \/ VerifierStep(0)

SpecBad == Init /\ [][NextBad]_vars

\* the positions of the items of v whose chain of parents, along earlier
\* items of v, reaches a hash of B
Doomed(v, B) ==
    LET D[i \in 1..Len(v)] ==
            \/ parent_hash(v[i]) \in B
            \/ \E j \in 1..(i - 1) : D[j] /\ v[j] = parent_hash(v[i])
    IN  {i \in 1..Len(v) : D[i]}

\* v without the items at the positions of `doomed`, from position i on
RECURSIVE Kept(_, _, _)
Kept(v, doomed, i) ==
    IF i > Len(v) THEN <<>>
    ELSE (IF i \in doomed THEN <<>> ELSE <<v[i]>>) \o Kept(v, doomed, i + 1)

\* what mark_as_bad(hashes) leaves behind
MarkedBad(hashes) ==
    LET doomed == Doomed(verified, bad \cup Range(hashes)) IN
    /\ \A h \in Range(hashes) : h \in bad' /\ h \notin processing'
    /\ \A i \in doomed : verified[i] \in bad' /\ verified[i] \notin processing'
    /\ verified' = Kept(verified, doomed, 1)

\* C9: when mark_as_bad(hashes) returns, every hash of hashes is in bad and
\* not in processing; every item of verified whose chain of parents, along
\* verified in FIFO order, reaches a hash of hashes or a hash that was in bad
\* is out of verified, in bad and not in processing; the other items of
\* verified are left in their order.
C9_MarkAsBad ==
    [][\A c \in Callers : \A hashes \in Slices :
          (mark_as_bad(c, hashes) /\ cpc'[c] = "idle" /\ last'.result = "Ok")
             => MarkedBad(hashes)]_vars

\* C9 for a call with at least one hash
C9_MarkAsBadNonEmpty ==
    [][\A c \in Callers : \A hashes \in Slices \ {<<>>} :
          (mark_as_bad(c, hashes) /\ cpc'[c] = "idle" /\ last'.result = "Ok")
             => MarkedBad(hashes)]_vars

(***************************************************************************)
(* C11                                                                     *)
(***************************************************************************)
DrainSteps(c) ==
    \/ \E max \in 0..MaxDrain : drain_reset(c, max)
    \/ drain_set_async(c)

\* Producers and consumers, drain taken step by step: a verifier's set_sync
\* can fall between the reset and the set_async of a drain.
NextSignal ==
    \/ \E c \in Callers : ImportSteps(c)
    \/ \E c \in Callers : DrainSteps(c)
    \/ \E w \in VerifierIds : VerifierStep(w)

SpecSignal == Init /\ [][NextSignal]_vars

CollectGarbageSteps(c) ==
    \/ collect_garbage(c)
    \/ collect_garbage_verifying(c)
    \/ collect_garbage_verified(c)
    \/ collect_garbage_processing(c)
    \/ collect_garbage_store(c)
    \/ collect_garbage_current(c)
    \/ collect_garbage_scale(c)

\* the targets that tell the limits of scale_verifiers apart
Targets == 0..(NumCpus + 1)

\* A queue built with any configuration; the callers collect garbage and
\* scale the verifiers, which pass their gate and wait for work.
NextScale ==
    \/ \E c \in Callers : CollectGarbageSteps(c)
    \/ \E c \in Callers : \E target \in Targets : scale_verifiers(c, target)
    \/ \E w \in VerifierIds : verifier_gate(w) \/ verifier_wait_for_work(w)

SpecScale == InitConfig /\ [][NextScale]_vars

\* the number of verifier threads new() spawns for the configuration
PoolSize ==
    IF config.scale_verifiers THEN NumCpus
    ELSE Max(1, Min(NumCpus, config.num_verifiers))

\* C12: num_verifiers() is within 1..pool_size: at construction, where it is
\* the configured count brought into 1..num_cpus, and after every step of a
\* scale_verifiers(target) or collect_garbage call; scale_verifiers(target)
\* leaves the target brought into 1..pool_size.
C12_NumVerifiers ==
    /\ state = Work(Max(1, Min(NumCpus, config.num_verifiers)))
    /\ num_verifiers \in 1..PoolSize
    /\ [][/\ state'.kind = "Work"
          /\ num_verifiers' \in 1..PoolSize'
          /\ \A c \in Callers : \A target \in Targets :
                scale_verifiers(c, target)
                   => num_verifiers' = Max(1, Min(PoolSize, target))]_vars

\* a queue configured with 0 verifiers, which gives 1, and allowed to scale
\* has been scaled to the whole pool, and collect_garbage has brought it
\* back to 1 after READJUSTMENT_PERIOD ticks
C12_Witness ==
    /\ config = [scale_verifiers |-> TRUE, num_verifiers |-> 0]
    /\ last.op = "collect_garbage"
    /\ ticks_since_adjustment = 0
    /\ num_verifiers = 1
    /\ \E w \in VerifierIds : w > 0 /\ wpc[w] = "wait_for_work"

(***************************************************************************)
(* C13                                                                     *)
(***************************************************************************)
\* One caller imports and clears, so that no import runs beside a clear; the
\* other drains and acknowledges single items as good or bad; one verifier
\* runs.
NextClear ==
    \/ ImportSteps("c1")
    \/ ClearSteps("c1")
    \/ \E max \in 0..MaxDrain : drain("c2", max)
    \/ \E h \in Hashes : mark_as_good("c2", <<h>>)
    \/ \E h \in Hashes : mark_as_bad("c2", <<h>>)
    \/ VerifierStep(0)

SpecClear == Init /\ [][NextClear]_vars

\* the state clear() is to leave
Cleared ==
    /\ unverified = <<>>
    /\ verifying = <<>>
    /\ verified = <<>>
    /\ processing = {}
    /\ processing_parents = EmptyMap
    /\ sizes = [unverified |-> 0, verifying |-> 0, verified |-> 0]
    /\ total_difficulty = 0

\* C13: when clear() returns, no import running beside it, the three FIFOs,
\* processing and processing_parents are empty and the three size counters
\* and total_difficulty are 0; no step of a clear() called on such a state
\* changes anything of the queue.
C13_Clear ==
    [][\A c \in Callers :
          /\ clear_parents(c) => Cleared'
          /\ (ClearSteps(c) /\ Cleared)
                => UNCHANGED <<queues, bad, sizes, maps, signal, pool>>]_vars

\* a second clear() has returned, after the first one had removed accepted
\* items that a verifier has verified since
C13_Witness ==
    /\ last.op = "clear"
    /\ calls = 2
    /\ cpc["c2"] = "idle"
    /\ Cleared
    /\ accepted # <<>>
    /\ verify_ok # EmptyMap

(***************************************************************************)
(* C14                                                                     *)
(***************************************************************************)
\* C14: drain(max) hands out the first min(max, |verified|) items of
\* verified in their order and leaves the others in their order, so that
\* drain(0) hands out nothing; when it leaves verified empty the reset of
\* the signal is its last access to the queue, and when items are left it
\* sets the signal again before it returns.
C14_Drain ==
    [][\A c \in Callers :
          /\ \A max \in 0..MaxDrain :
                drain_reset(c, max) =>
                   LET count == Min(max, Len(verified)) IN
                   /\ drained' = drained \o SubSeq(verified, 1, count)
                   /\ verified' = SubSeq(verified, count + 1, Len(verified))
                   /\ max = 0 => drained' = drained
                   /\ IF verified' = <<>>
                      THEN cpc'[c] = "idle" /\ ~signalled'
                      ELSE cpc'[c] = "drain_set_async"
          /\ drain_set_async(c) =>
                /\ cpc'[c] = "idle"
                /\ verified # <<>>
                /\ signalled'
                /\ UNCHANGED <<verified, drained>>]_vars

\* a drain has handed out the first of two verified items and left the
\* second, with the signal set
C14_Witness ==
    /\ last.op = "drain"
    /\ Len(drained) = 1
    /\ Len(verified) = 1
    /\ signalled
    /\ \A c \in Callers : cpc[c] = "idle"

(***************************************************************************)
(* C15                                                                     *)
(***************************************************************************)
\* C15: when flush() returns, unverified and verifying are empty; as long as
\* no clear() has been called, every item accepted so far is in verified,
\* has been handed out by drain or is in bad.
C15_FlushReturns ==
    [][\A c \in Callers :
          ((flush(c) \/ flush_woken(c)) /\ cpc'[c] = "idle")
             => /\ unverified' = <<>>
                /\ verifying' = <<>>
                /\ calls = 0 =>
                      Range(accepted) \subseteq
                          (Range(verified) \cup Range(drained) \cup bad)]_vars

\* a flush() has returned with two items accepted and no clear(): one item
\* failed verification and is in bad, the other is in verified
C15_Witness ==
    /\ last.op = "flush"
    /\ calls = 0
    /\ Len(accepted) = 2
    /\ Len(verified) = 1
    /\ \E h \in Range(accepted) : h \in bad
    /\ unverified = <<>> /\ verifying = <<>>

(***************************************************************************)
(* C16                                                                     *)
(***************************************************************************)
\* the steps that carry on a call under way
Continue(c) ==
    \/ import_bad(c)
    \/ \E r \in CreateResults : import_create(c, r)
    \/ import_size(c)
    \/ import_insert(c)
    \/ import_td(c)
    \/ import_parents(c)
    \/ import_push(c)
    \/ clear_td(c)
    \/ clear_processing(c)
    \/ clear_parents(c)
    \/ flush_woken(c)

\* One caller flushes; the other imports, clears and scales the verifiers;
\* all verifiers run.
NextLive ==
    \/ FlushSteps("c1")
    \/ ImportSteps("c2")
    \/ ClearSteps("c2")
    \/ \E target \in 1..NumCpus : scale_verifiers("c2", target)
    \/ \E w \in VerifierIds : VerifierStep(w)

\* Fair scheduling: every verifier thread keeps running, and a call under
\* way is carried on; nobody has to start a call.
Fairness ==
    /\ \A w \in VerifierIds : WF_vars(VerifierStep(w))
    /\ \A c \in Callers : WF_vars(Continue(c))

SpecLive == Init /\ [][NextLive]_vars /\ Fairness

\* caller c is inside flush(), waiting on `empty` or for its mutex back
FlushBlocked(c) == cpc[c] \in {"flush_wait", "flush_woken"}

\* C16: a flush() call that is blocked returns once unverified and verifying
\* are empty for good.
C16_FlushEventuallyReturns ==
    \A c \in Callers :
        [](FlushBlocked(c) /\ [](unverified = <<>> /\ verifying = <<>>)
              => <>(cpc[c] = "idle"))

(***************************************************************************)
(* C17, C18                                                                *)
(***************************************************************************)
\* struct Verification, line 197, and the fields of VerificationQueue: the
\* order in which the locks are to be taken
LockOrder == <<"unverified", "verifying", "verified", "bad", "processing",
               "processing_parents", "total_difficulty", "state">>

Locks == Range(LockOrder)

LockRank(l) == CHOOSE i \in DOMAIN LockOrder : LockOrder[i] = l

\* the locks caller c holds from one step to the next
caller_holds(c) ==
    (IF c \in Clearing THEN {"unverified", "verifying", "verified"} ELSE {})
    \cup (IF c \in Draining THEN {"verified"} ELSE {})
    \cup (IF c \in BadHung THEN {"verified", "bad"} ELSE {})
    \cup (IF c \in GoodHung \cup BadHung
          THEN {"processing", "total_difficulty", "processing_parents"} ELSE {})
    \cup (IF cpc[c] = "import_push" THEN {"processing_parents"} ELSE {})

\* the locks the next step of caller c asks for first
caller_wants(c) ==
    CASE cpc[c] = "import_bad" -> {"bad"}
      [] cpc[c] = "import_create" -> {"processing", "bad"}
      [] cpc[c] = "import_insert" -> {"processing"}
      [] cpc[c] = "import_td" -> {"total_difficulty"}
      [] cpc[c] = "import_parents" -> {"processing_parents"}
      [] cpc[c] = "import_push" -> {"unverified"}
      [] cpc[c] = "clear_td" -> {"total_difficulty"}
      [] cpc[c] = "clear_processing" -> {"processing"}
      [] cpc[c] = "clear_parents" -> {"processing_parents"}
      [] cpc[c] \in {"mark_as_good_hung", "mark_as_bad_hung"} -> {"processing_parents"}
      [] cpc[c] = "flush_woken" -> {"unverified"}
      [] cpc[c] = "collect_garbage_verifying" -> {"verifying"}
      [] cpc[c] = "collect_garbage_verified" -> {"verified"}
      [] cpc[c] = "collect_garbage_processing" -> {"processing"}
      [] cpc[c] \in {"collect_garbage_current", "collect_garbage_scale"} -> {"state"}
      [] OTHER -> {}

\* the same for verifier w
verifier_holds(w) == IF wpc[w] = "verify_blocked" THEN {"verifying"} ELSE {}

verifier_wants(w) ==
    CASE wpc[w] = "gate" -> {"state"}
      [] wpc[w] \in {"wait_for_work", "woken", "claim"} -> {"unverified"}
      [] wpc[w] = "verify" -> {"verifying"}
      [] wpc[w] = "verify_blocked" -> {"verified"}
      [] OTHER -> {}

\* a thread holds lock held and asks for lock wanted
Requests(held, wanted) ==
    \/ \E c \in Callers : held \in caller_holds(c) /\ wanted \in caller_wants(c)
    \/ \E w \in VerifierIds : held \in verifier_holds(w) /\ wanted \in verifier_wants(w)

\* C17: no thread asks for a lock that precedes, in the order unverified,
\* verifying, verified, bad, processing, processing_parents,
\* total_difficulty, state, a lock it holds (or is one it holds).
C17_LockOrder ==
    \A held, wanted \in Locks :
        Requests(held, wanted) => LockRank(held) < LockRank(wanted)

\* lock to is reached from lock from along at most n requests, each by a
\* thread that holds the one lock and asks for the next
RECURSIVE WaitPath(_, _, _)
WaitPath(from, to, n) ==
    /\ n > 0
    /\ \/ Requests(from, to)
       \/ \E via \in Locks : Requests(from, via) /\ WaitPath(via, to, n - 1)

\* threads that wait for each other's locks, or for their own, for ever
Deadlocked == \E l \in Locks : WaitPath(l, l, Cardinality(Locks))

\* C18: no interleaving of the calls and the verifiers reaches a state in
\* which threads wait for ever for locks held by each other or by
\* themselves.
C18_NoDeadlock == ~Deadlocked


(***************************************************************************)
(* C19                                                                     *)
(***************************************************************************)
\* the hashes of the placeholders of v, in their order
PlaceholderHashes(v) == [i \in DOMAIN v |-> v[i].hash]

\* the number of placeholders at the head of v with their output set
RECURSIVE CompletedPrefix(_)
CompletedPrefix(v) ==
    IF v = <<>> \/ Head(v).output = None THEN 0
    ELSE 1 + CompletedPrefix(Tail(v))

\* verifying as the commit of a verifier finds it before drain_verifying:
\* without the placeholders of hash when its verification failed, with the
\* output of the first placeholder of hash set when it succeeded
BeforeDrain(hash, ok) ==
    IF ok
    THEN [i \in DOMAIN verifying |->
             IF i = placeholder_index(verifying, hash)
             THEN [hash |-> hash, output |-> Some(hash)]
             ELSE verifying[i]]
    ELSE retain_other(verifying, hash)

\* C19: a step leaves the placeholders of verifying and their order alone,
\* and brings no item into verified, unless it is
\*   the claim of a verifier, which pops the head of unverified and appends
\*     its placeholder, with no output, to verifying, in one step;
\*   a step of clear, which empties verifying;
\*   the commit of a verifier, which takes out the placeholders of its item
\*     if the verification failed, and then placeholders from the head, each
\*     with its output set: only their items are appended to verified, so
\*     that none behind a placeholder without output is.
C19_VerifyingOrder ==
    [][\/ /\ PlaceholderHashes(verifying') = PlaceholderHashes(verifying)
          /\ \A i \in DOMAIN verifying :
                verifying[i].output # None => verifying'[i] = verifying[i]
          /\ Range(verified') \subseteq Range(verified)
       \/ /\ unverified # <<>>
          /\ unverified' = Tail(unverified)
          /\ verifying' = Append(verifying, [hash |-> Head(unverified), output |-> None])
          /\ verified' = verified
       \/ /\ \E c \in Callers : clear(c)
          /\ verifying' = <<>>
       \/ \E w \in VerifierIds : \E ok \in BOOLEAN :
             /\ verifier_verify(w, ok)
             /\ LET base == BeforeDrain(witem[w], ok)
                    k == Len(base) - Len(verifying')
                IN  /\ k \in 0..CompletedPrefix(base)
                    /\ verifying' = SubSeq(base, k + 1, Len(base))
                    /\ Len(verified') >= Len(verified)
                    /\ SubSeq(verified', 1, Len(verified)) = verified
                    /\ IsSubsequence(
                           SubSeq(verified', Len(verified) + 1, Len(verified')),
                           PlaceholderHashes(SubSeq(base, 1, k)))
      ]_vars

\* a placeholder with its output set waits in verifying behind one without
C19_Witness ==
    \E i, j \in DOMAIN verifying :
        /\ i < j
        /\ verifying[i].output = None
        /\ verifying[j].output # None

(***************************************************************************)
(* C20                                                                     *)
(***************************************************************************)
\* A producer, a caller that marks single items bad, all verifiers: the
\* parent of an item can go bad while the item and its child wait in
\* verifying.
NextCommit ==
    \/ ImportSteps("c1")
    \/ \E h \in Hashes : mark_as_bad("c2", <<h>>)
    \/ \E w \in VerifierIds : VerifierStep(w)

SpecCommit == Init /\ [][NextCommit]_vars

\* what the commit of a verifier leaves behind: H are the items of the
\* placeholders at the head of verifying with their output set, B is bad
\* when drain_verifying is entered
Committed(hash, ok) ==
    LET base == BeforeDrain(hash, ok)
        k == CompletedPrefix(base)
        H == PlaceholderHashes(SubSeq(base, 1, k))
        B == IF ok THEN bad ELSE bad \cup {hash}
        dropped == Doomed(H, B)
    IN  /\ verifying' = SubSeq(base, k + 1, Len(base))
        /\ verified' = verified \o Kept(H, dropped, 1)
        /\ bad' = B \cup {H[i] : i \in dropped}

\* C20: in the commit of a verifier every placeholder at the head of
\* verifying with its output set is taken out; its item is dropped, and its
\* hash inserted into bad, when its parent hash is in bad at that moment,
\* be it as the hash of an item dropped earlier in the same commit; every
\* other item is appended to verified, in the order of the placeholders.
C20_CommitDropsBadDescent ==
    [][\A w \in VerifierIds : \A ok \in BOOLEAN :
          (verifier_verify(w, ok) /\ wpc'[w] # "verify_blocked")
             => Committed(witem[w], ok)]_vars

\* one commit has dropped an item for its bad parent and then that item's
\* child, K::verify having succeeded on both: the child was completed behind
\* its parent, and the verifier of the parent, the only one to have
\* committed to the head, has not set the signal yet
C20_Witness ==
    \E h \in Hashes :
        /\ parent_hash(h) \in Hashes
        /\ accepted = <<parent_hash(h), h>>
        /\ verify_ok = (parent_hash(h) :> TRUE) @@ (h :> TRUE)
        /\ {parent_hash(h), h} \subseteq bad
        /\ verified = <<>> /\ verifying = <<>>
        /\ ~signalled
        /\ Cardinality({w \in VerifierIds : wpc[w] = "signal"}) = 1

(***************************************************************************)
(* C21                                                                     *)
(***************************************************************************)
\* the items K::verify has failed on
Failed == {h \in DOMAIN verify_ok : ~verify_ok[h]}

\* C21: when K::verify fails in a verifier for the item of hash h, the
\* commit inserts h into bad and takes every placeholder of h out of
\* verifying; if the head of verifying is completed then, the completed
\* placeholders at the head are committed as in C20 and the verifier goes
\* on to set the signal, otherwise verified stays as it is; no caller's
\* call, argument or result is touched; and no item K::verify has failed on
\* is in verified or has been handed out by drain.
C21_VerifyFailure ==
    [][/\ \A w \in VerifierIds :
             verifier_verify(w, FALSE) =>
                LET h == witem[w]
                    retained == retain_other(verifying, h)
                IN  /\ h \in bad'
                    /\ \A i \in DOMAIN verifying' : verifying'[i].hash # h
                    /\ Committed(h, FALSE)
                    /\ IF CompletedPrefix(retained) > 0
                       THEN wpc'[w] = "signal"
                       ELSE wpc'[w] = "gate" /\ verified' = verified
                    /\ UNCHANGED <<cpc, carg, last>>
       /\ Failed' \cap (Range(verified') \cup Range(drained')) = {}
      ]_vars

\* K::verify has failed on the first of two accepted items; the second,
\* no child of the first, is in verified, and a verifier is about to set
\* the signal
C21_Witness ==
    /\ Len(accepted) = 2
    /\ accepted[1] \in Failed
    /\ accepted[1] \in bad
    /\ verified = <<accepted[2]>>
    /\ verifying = <<>>
    /\ ~signalled
    /\ Cardinality({w \in VerifierIds : wpc[w] = "signal"}) = 1

(***************************************************************************)
(* C22                                                                     *)
(***************************************************************************)
\* lengths of unverified and verified on either side of the limits of
\* lines 735-743
Lengths ==
    {0, MinUnverifiedForScaling - 1, MinUnverifiedForScaling,
     MinUnverifiedForScaling + 2, 2 * MinUnverifiedForScaling}

\* A queue built with any configuration on which collect_garbage has
\* returned READJUSTMENT_PERIOD - 1 times.  Caller c1 is inside its next
\* collect_garbage, past line 717, with the lengths it has read from
\* FIFOs that a clear() has emptied since.
InitTarget ==
    \E cfg \in Configs : \E u_len \in Lengths, v_len \in Lengths :
        LET max_verifiers == NumCpus
            default_amount == Max(1, Min(max_verifiers, cfg.num_verifiers))
            number_of_threads == IF cfg.scale_verifiers THEN max_verifiers
                                 ELSE default_amount
        IN  /\ unverified = <<>>
            /\ verifying = <<>>
            /\ verified = <<>>
            /\ bad = {}
            /\ sizes = [unverified |-> 0, verifying |-> 0, verified |-> 0]
            /\ processing = {}
            /\ processing_parents = EmptyMap
            /\ total_difficulty = 0
            /\ signalled = FALSE
            /\ deleting = FALSE
            /\ sent = 0
            /\ config = cfg
            /\ ticks_since_adjustment =
                  IF cfg.scale_verifiers THEN READJUSTMENT_PERIOD - 1 ELSE 0
            /\ state = Work(default_amount)
            /\ verifier_handles = 0..(number_of_threads - 1)
            /\ wpc = [w \in VerifierIds |->
                        IF w < number_of_threads THEN "gate" ELSE "none"]
            /\ witem = [w \in VerifierIds |-> 0]
            /\ verify_ok = EmptyMap
            /\ cpc = [c \in Callers |->
                        IF c = "c1" THEN "collect_garbage_processing"
                        ELSE "idle"]
            /\ carg = [c \in Callers |->
                         IF c = "c1"
                         THEN [u_len |-> u_len, v_len |-> v_len]
                         ELSE NoArg]
            /\ accepted = <<>>
            /\ drained = <<>>
            /\ imports = 0
            /\ calls = 0
            /\ last = [op |-> "clear", result |-> "Ok", input |-> FALSE,
                       solo |-> None]

\* Caller c1 calls collect_garbage time after time; the verifiers pass
\* their gate and wait for work.
NextTarget ==
    \/ CollectGarbageSteps("c1")
    \/ \E w \in VerifierIds : verifier_gate(w) \/ verifier_wait_for_work(w)

SpecTarget == InitTarget /\ [][NextTarget]_vars

\* the target of the claim, for u = |unverified|, v = |verified| and cur the
\* verifier count
ClaimedTarget(u, v, cur) ==
    LET distance == IF v >= u THEN v - u ELSE u - v
    IN  IF u < 20 THEN 1
        ELSE IF distance <= (v + u) \div 10 THEN cur
        ELSE IF v > u THEN cur - 1
        ELSE cur + 1

\* C22: collect_garbage reads u = |unverified| and v = |verified|.  On a
\* queue that scales, the call that brings the tick count to
\* READJUSTMENT_PERIOD sets the count back to 0 and sets the verifier count
\* to the target of the claim, held between 1 and the number of verifier
\* threads; every other call adds one tick and leaves the verifier count as
\* it is.  On a queue that does not scale no call changes the verifier count.
C22_Readjustment ==
    [][\A c \in Callers :
         /\ collect_garbage(c) => carg'[c].u_len = Len(unverified)
         /\ collect_garbage_verified(c) =>
               /\ carg'[c].u_len = carg[c].u_len
               /\ carg'[c].v_len = Len(verified)
         /\ collect_garbage_processing(c) =>
               /\ state' = state
               /\ cpc'[c] # "idle" <=>
                     /\ config.scale_verifiers
                     /\ ticks_since_adjustment = READJUSTMENT_PERIOD - 1
               /\ cpc'[c] = "idle" =>
                     ticks_since_adjustment' =
                        IF config.scale_verifiers
                        THEN ticks_since_adjustment + 1
                        ELSE ticks_since_adjustment
         /\ collect_garbage_store(c) =>
               /\ ticks_since_adjustment' = 0
               /\ state' = state
               /\ cpc'[c] # "idle"
         /\ collect_garbage_current(c) =>
               /\ carg'[c].current = state.n
               /\ state' = state
               /\ cpc'[c] # "idle"
         /\ collect_garbage_scale(c) =>
               /\ cpc'[c] = "idle"
               /\ state'.kind = "Work"
               /\ state'.n =
                     Max(1, Min(PoolSize,
                                ClaimedTarget(carg[c].u_len, carg[c].v_len,
                                              state.n)))
         /\ (collect_garbage(c) \/ collect_garbage_verifying(c)
               \/ collect_garbage_verified(c)) =>
               UNCHANGED <<state, ticks_since_adjustment>>
      ]_vars

\* a queue built with one active verifier has found unverified longer than
\* verified, beyond the tolerance, and has set a second verifier to work
C22_Witness ==
    /\ config.scale_verifiers
    /\ config.num_verifiers = 1
    /\ state = Work(2)
    /\ ticks_since_adjustment = 0
    /\ last.op = "collect_garbage"
    /\ cpc["c1"] = "idle"

(***************************************************************************)
(* Drop, and the wait for work statement by statement                      *)
(***************************************************************************)
\* lines 323-328: the unverified lock is taken, and kept
verifier_wait_lock(w) ==
    /\ wpc[w] = "wait_for_work"
    /\ ~unverified_locked
    /\ unverified = <<>> => ~verifying_locked
    /\ cpc' = IF unverified = <<>> /\ verifying = <<>> THEN notify_empty(cpc) ELSE cpc
    /\ wpc' = [wpc EXCEPT ![w] = "exit_check"]
    /\ UNCHANGED <<queues, bad, sizes, maps, signal, pool, witem, carg,
                   last, history>>

\* lines 330-335 and 339-343, unverified locked: the look at the pool state
verifier_exit_check(w) ==
    /\ wpc[w] = "exit_check"
    /\ wpc' = [wpc EXCEPT ![w] =
                 IF state.kind = "Exit" THEN "exited"
                 ELSE IF unverified = <<>> THEN "parking"
                 ELSE "claim"]
    /\ UNCHANGED <<queues, bad, sizes, maps, signal, pool, witem, cpc, carg,
                   last, history>>

\* line 336: the wait on more_to_verify gives the unverified lock back
verifier_wait(w) ==
    /\ wpc[w] = "parking"
    /\ wpc' = [wpc EXCEPT ![w] = "waiting"]
    /\ UNCHANGED <<queues, bad, sizes, maps, signal, pool, witem, cpc, carg,
                   last, history>>

\* line 336 returns with the unverified lock taken again
verifier_wait_return(w) ==
    /\ wpc[w] = "woken"
    /\ ~unverified_locked
    /\ wpc' = [wpc EXCEPT ![w] = "exit_check"]
    /\ UNCHANGED <<queues, bad, sizes, maps, signal, pool, witem, cpc, carg,
                   last, history>>

\* the verifier loop with the wait for work statement by statement
VerifierStatement(w) ==
    \/ verifier_gate(w)
    \/ verifier_wait_lock(w)
    \/ verifier_exit_check(w)
    \/ verifier_wait(w)
    \/ verifier_wait_return(w)
    \/ verifier_claim(w)
    \/ \E ok \in BOOLEAN : verifier_verify(w, ok)
    \/ verifier_signal(w)

\* positions of a caller inside drop
DropPositions == {"drop_deleting", "drop_exit", "drop_notify", "drop_join", "dropped"}

\* the queue is alive: drop(&mut self) has not been entered
Alive == \A c \in Callers : cpc[c] \notin DropPositions

\* lines 763-765: drop takes the queue from its last owner, so no call is
\* under way; self.clear()
drop(c) ==
    /\ \A d \in Callers : cpc[d] = "idle"
    /\ ~unverified_locked
    /\ ~verifying_locked
    /\ ~verified_locked
    /\ unverified' = <<>>
    /\ verifying' = <<>>
    /\ verified' = <<>>
    /\ sizes' = [unverified |-> 0, verifying |-> 0, verified |-> 0]
    /\ total_difficulty' = 0
    /\ processing' = {}
    /\ processing_parents' = EmptyMap
    /\ Goto(c, "drop_deleting", NoArg)
    /\ UNCHANGED <<bad, signal, pool, workers, history>>

\* line 766
drop_deleting(c) ==
    /\ cpc[c] = "drop_deleting"
    /\ deleting' = TRUE
    /\ Goto(c, "drop_exit", NoArg)
    /\ UNCHANGED <<queues, bad, sizes, maps, signal, scaling, verify_ok,
                   workers, history>>

\* lines 769-770
drop_exit(c) ==
    /\ cpc[c] = "drop_exit"
    /\ state' = Exit
    /\ wpc' = notify_state(wpc)
    /\ Goto(c, "drop_notify", NoArg)
    /\ UNCHANGED <<queues, bad, sizes, maps, signal, verifier_handles, config,
                   ticks_since_adjustment, verify_ok, deleting, witem, history>>

\* a faulty drop for sensitivity analysis: more_to_verify is notified
\* without the unverified lock
drop_notify_unlocked(c) ==
    /\ cpc[c] = "drop_notify"
    /\ wpc' = notify_more_to_verify(wpc)
    /\ Goto(c, "drop_join", NoArg)
    /\ UNCHANGED <<queues, bad, sizes, maps, signal, pool, witem, history>>

\* lines 774-777
drop_notify(c) ==
    /\ cpc[c] = "drop_notify"
    /\ ~unverified_locked
    /\ wpc' = notify_more_to_verify(wpc)
    /\ Goto(c, "drop_join", NoArg)
    /\ UNCHANGED <<queues, bad, sizes, maps, signal, pool, witem, history>>

\* lines 779-782: every verifier thread is joined
drop_join(c) ==
    /\ cpc[c] = "drop_join"
    /\ \A w \in verifier_handles : wpc[w] = "exited"
    /\ verifier_handles' = {}
    /\ Goto(c, "dropped", NoArg)
    /\ UNCHANGED <<queues, bad, sizes, maps, signal, state, config,
                   ticks_since_adjustment, verify_ok, deleting, workers,
                   history>>

\* drop, once entered
DropSteps(c) ==
    \/ drop_deleting(c)
    \/ drop_exit(c)
    \/ drop_notify(c)
    \/ drop_join(c)

\* One caller imports, the other scales the verifiers, until one of them
\* drops the queue; all verifiers run.
NextDrop ==
    \/ Alive /\ ImportSteps("c1")
    \/ Alive /\ \E target \in 1..NumCpus : scale_verifiers("c2", target)
    \/ \E c \in Callers : Alive /\ drop(c)
    \/ \E c \in Callers : DropSteps(c)
    \/ \E w \in VerifierIds : VerifierStatement(w)

\* Fair scheduling of a shutdown: every verifier thread keeps running, every
\* K::verify call returns, and drop is carried on; nobody has to call drop.
FairnessDrop ==
    /\ \A w \in VerifierIds : WF_vars(VerifierStatement(w))
    /\ \A c \in Callers : WF_vars(DropSteps(c))

SpecDrop == Init /\ [][NextDrop]_vars /\ FairnessDrop

(***************************************************************************)
(* C23                                                                     *)
(***************************************************************************)
\* every verifier thread has left its loop and drop has joined them all
Joined ==
    /\ \A w \in VerifierIds : wpc[w] \in {"exited", "none"}
    /\ \E c \in Callers : cpc[c] = "dropped"

\* C23: once drop has set State::Exit, every verifier thread leaves its
\* loop and the join of all of them completes, wherever each verifier was
\* when drop started.
C23_ShutdownTerminates == (state.kind = "Exit") ~> Joined

\* the queue has been dropped after both verifiers had items to verify, one
\* of them was put to sleep, and the join has completed
C23_Witness ==
    /\ Joined
    /\ verifier_handles = {}
    /\ deleting
    /\ Cardinality(DOMAIN verify_ok) = 2
    /\ last.op = "scale_verifiers"

(***************************************************************************)
(* C24                                                                     *)
(***************************************************************************)
\* the outputs of the completed placeholders of verifying, in order
CompletedOutputs ==
    LET done == SelectSeq(verifying, LAMBDA p : p.output # None)
    IN  [i \in DOMAIN done |-> done[i].hash]

\* C24: whenever no public operation and no commit of a verifier is
\* mid-execution, each size counter is the sum of the sizes of the items of
\* its stage: the items of unverified, the outputs of the completed
\* placeholders of verifying, the items of verified.  And no counter is
\* ever taken below zero: none wraps around to the top of its range, beyond
\* the sizes of all the items the imports can have brought.
C24_Sizes ==
    /\ (Quiescent /\ NoCommitUnderWay) =>
          /\ sizes.unverified = sum_sizes(unverified)
          /\ sizes.verifying = sum_sizes(CompletedOutputs)
          /\ sizes.verified = sum_sizes(verified)
    /\ \A k \in DOMAIN sizes : sizes[k] <= MaxImports * malloc_size_of(NumHashes)

(***************************************************************************)
(* C25                                                                     *)
(***************************************************************************)
\* C25: whenever verifier w pops an item from unverified, the pool state is
\* Work(k) with w < k: a verifier the pool has scaled out claims no item.
C25_ClaimOnlyWhenActive ==
    [][\A w \in VerifierIds :
         (verifier_claim(w) /\ unverified # <<>>) =>
             (state.kind = "Work" /\ w < state.n)]_vars

(***************************************************************************)
(* C26                                                                     *)
(***************************************************************************)
\* a verifier between a commit that has drained verifying and its set_sync
Signalling == {w \in VerifierIds : wpc[w] = "signal"}

\* C26: while the queue is not being deleted, no drain is under way and no
\* verifier is between its commit and its set_sync, a verified FIFO that is
\* not empty has its signal set, and a BlockVerified message has been sent
\* since the last reset.
C26_VerifiedIsSignalled ==
    (~deleting /\ (\A c \in Callers : cpc[c] \notin {"drain_set_async"})
       /\ Signalling = {}) =>
        (verified # <<>> => (signalled /\ sent = 1))

\* two verified items wait for their first drain, announced by one message
C26_Witness ==
    /\ Len(verified) = 2
    /\ drained = <<>>
    /\ signalled
    /\ sent = 1
    /\ Signalling = {}
    /\ \A c \in Callers : cpc[c] = "idle"

(***************************************************************************)
(* C27                                                                     *)
(***************************************************************************)
\* One caller imports, the other drains and scales the verifiers; nobody
\* clears or drops the queue; all verifiers run, the wait for work taken
\* statement by statement.
NextProgress ==
    \/ ImportSteps("c1")
    \/ \E max \in 0..MaxDrain : drain("c2", max)
    \/ \E target \in 1..NumCpus : scale_verifiers("c2", target)
    \/ \E w \in VerifierIds : VerifierStatement(w)

\* Fair scheduling: every verifier thread keeps running and every K::verify
\* call returns; no caller has to do anything.
FairnessProgress == \A w \in VerifierIds : WF_vars(VerifierStatement(w))

SpecProgress == Init /\ [][NextProgress]_vars /\ FairnessProgress

\* the hashes of the items in unverified and verifying
Pending ==
    Range(unverified) \cup {verifying[i].hash : i \in DOMAIN verifying}

\* the hashes of the items that were appended to verified, and the bad set
Settled == Range(verified) \cup Range(drained) \cup bad

=============================================================================
